---- MODULE Spec2Model ----
(***************************************************************************)
(* State-machine model of the quiz (assessment) engine of script.js.       *)
(*                                                                         *)
(* JavaScript values are encoded as integers so that one answer slot can   *)
(* hold an option index (>= 0), null, undefined or one of the two verdict  *)
(* strings.  JavaScript arrays are 0-based; the sequences below are        *)
(* 1-based, so array element a[i] is a[i + 1] here, while                  *)
(* currentQuestionIndex keeps its 0-based JavaScript value.                *)
(*                                                                         *)
(* Every action is one event handler or timer callback, with the guards    *)
(* the code has: a handler can run whenever its function can be called.    *)
(* A handler that throws keeps the assignments made before the throw.      *)
(*                                                                         *)
(* Spec        the handlers of the quiz on the question pool               *)
(* SamplerSpec initializeQuestions on every pool size and sample size      *)
(* ScorerSpec  the scoring step of submitQuiz on every answered attempt    *)
(***************************************************************************)
EXTENDS Integers, Sequences, FiniteSets, TLC

\* ------------------------------------------------------------------------
\* Value encoding of an answer slot
\* ------------------------------------------------------------------------
NULL == -1
UNDEFINED == -2
CORRECT == -3
INCORRECT == -4

\* ------------------------------------------------------------------------
\* Bounds of the model
\* ------------------------------------------------------------------------
\* selectAnswer is offered the option indices 0..MaxAnswerIndex
MaxAnswerIndex == 1
\* at most this many timers of one kind are pending at a time
MaxPending == 1
\* checkGitignoreBuilder is offered the tick patterns that differ from the
\* expected pattern in at most this many boxes
MaxWrongBoxes == 1
\* the pool is cut down to this many questions
MaxQuestions == 2
\* largest pool given to the sampler in SamplerSpec
MaxPool == 4
\* longest arbitrary attempt given to the scorer in ScorerSpec
MaxAttemptLen == 2
\* the scoring step is run at most this many times on one attempt
MaxScorings == 2
\* longest array given to shuffleArray in ShuffleSpec, and its largest element
MaxShuffleLen == 3
MaxShuffleValue == 2

\* ------------------------------------------------------------------------
\* Program constants
\* ------------------------------------------------------------------------
\* the literal 20 of slice(0, 20) and new Array(20)
SampleSize == 20
\* percentage >= 80
PassMark == 80

\* The question pool: 15 choice questions (four options each and a correct
\* index) and three interactive ones (no options, no correct index), in the
\* order of the source.
quizQuestions ==
    << [type |-> "choice", component |-> "none", correct |-> 1],
       [type |-> "choice", component |-> "none", correct |-> 0],
       [type |-> "choice", component |-> "none", correct |-> 2],
       [type |-> "interactive", component |-> "git-workflow", correct |-> UNDEFINED],
       [type |-> "choice", component |-> "none", correct |-> 2],
       [type |-> "choice", component |-> "none", correct |-> 2],
       [type |-> "interactive", component |-> "branch-practice", correct |-> UNDEFINED],
       [type |-> "choice", component |-> "none", correct |-> 2],
       [type |-> "choice", component |-> "none", correct |-> 1],
       [type |-> "choice", component |-> "none", correct |-> 1],
       [type |-> "choice", component |-> "none", correct |-> 1],
       [type |-> "choice", component |-> "none", correct |-> 2],
       [type |-> "choice", component |-> "none", correct |-> 1],
       [type |-> "interactive", component |-> "gitignore-builder", correct |-> UNDEFINED],
       [type |-> "choice", component |-> "none", correct |-> 1],
       [type |-> "choice", component |-> "none", correct |-> 1],
       [type |-> "choice", component |-> "none", correct |-> 1],
       [type |-> "choice", component |-> "none", correct |-> 2] >>

\* The pool the model runs the program on is cut down to MaxQuestions
\* questions, one of each form and the first of its form in quizQuestions, given
\* here by their positions: choice with correct index 1, git-workflow,
\* branch-practice, gitignore-builder, choice with correct index 0, choice
\* with correct index 2.
Representatives == << 1, 4, 7, 14, 2, 3 >>

\* the pool of the model: wherever the source reads quizQuestions, the model
\* reads questionPool; it stays shorter than SampleSize, as the pool of the
\* source does (18 < 20)
questionPool == [i \in 1..MaxQuestions |-> quizQuestions[Representatives[i]]]

\* every choice question of the pool has four options
OptionCount == 4

\* the tutorial sections, in page order
sections ==
    << "intro", "setup", "repositories", "basics", "branching", "collaboration",
       "advanced", "best-practices", "final-quiz" >>

\* Array.prototype.indexOf, 0-based, -1 when the element is absent
indexOf(array, element) ==
    IF \E i \in 1..Len(array) : array[i] = element
    THEN (CHOOSE i \in 1..Len(array) :
              array[i] = element /\ \A j \in 1..(i - 1) : array[j] # element) - 1
    ELSE -1

\* sections.indexOf('final-quiz')
finalQuizIndex == 8

\* the decimal digits
Digits == << "0", "1", "2", "3", "4", "5", "6", "7", "8", "9" >>

\* String(n) for n >= 0, which is what localStorage.setItem stores for a number
RECURSIVE NumberToString(_)
NumberToString(n) ==
    IF n < 10 THEN << Digits[n + 1] >>
    ELSE NumberToString(n \div 10) \o << Digits[(n % 10) + 1] >>

\* localStorage without the key, and with a string stored under it
NoItem == [stored |-> FALSE, value |-> << >>]
Item(value) == [stored |-> TRUE, value |-> value]

VARIABLES
    currentQuestionIndex,   \* cursor, 0-based
    userAnswers,            \* sequence of slot values
    quizStarted,
    quizCompleted,
    finalQuizScore,
    shuffledQuestions,      \* sequence of references (pool positions 1..N)
    questionMapping,        \* sequence of 0-based pool indices
    questionContainer,      \* what displayCurrentQuestion rendered last
    certificateSection,     \* style.display of #certificateSection
    pendingNav,             \* pending setTimeout(updateQuizNavigation, 1000)
    pendingFinish,          \* pending setTimeout(finishQuiz, 500)
    navCheckedLast,         \* history: for each pending updateQuizNavigation timer,
                            \* whether the checked question was the last one
    currentSection,
    savedProgress,          \* localStorage['github-tutorial-progress']
    loadPending,            \* the script is evaluated and the DOMContentLoaded
                            \* event of the document is still to be dispatched
    lastAlert,              \* the message of the most recent alert()
    sampler,                \* SamplerSpec: input and output of one sampling
    scorer,                 \* ScorerSpec: input and output of one scoring
    checker,                \* CheckerSpec: input and output of one exercise check
    equiv,                  \* EquivSpec: input and output of one command comparison
    shuffle,                \* ShuffleSpec: input and output of one shuffleArray call
    pendingCertificate,     \* pending setTimeout of generateCertificate: the names
    certificate,            \* content of #certificateForm
    simulatorState,         \* the Git simulator: working files, staged files,
                            \* commits and achievements
    commandOutput,          \* the last line appended to #commandOutput
    workflowState           \* the workflow simulator

quizVars == << currentQuestionIndex, userAnswers, quizStarted, quizCompleted,
               finalQuizScore, shuffledQuestions, questionMapping >>
domVars == << questionContainer, certificateSection >>
timerVars == << pendingNav, pendingFinish, navCheckedLast >>
sectionVars == << currentSection, savedProgress, loadPending >>
certVars == << pendingCertificate, certificate >>
simVars == << simulatorState, commandOutput, workflowState >>
auxVars == << sampler, scorer, checker, equiv, shuffle, certVars, simVars >>
vars == << quizVars, domVars, timerVars, sectionVars, lastAlert, auxVars >>

\* ------------------------------------------------------------------------
\* Helpers
\* ------------------------------------------------------------------------
\* new Array(n).fill(null)
NullArray(n) == [i \in 1..n |-> NULL]

\* array.slice(0, k)
Slice(s, k) == [i \in 1..(IF k < Len(s) THEN k ELSE Len(s)) |-> s[i]]

\* the question object a reference denotes
Q(ref) == questionPool[ref]

\* The outcomes of Math.floor(Math.random() * (i + 1)) for i = n-1 .. 1:
\* one index j in 0..i for every i.
RandomChoices(n) == { f \in [1..(n - 1) -> 0..(n - 1)] : \A i \in 1..(n - 1) : f[i] <= i }

\* an assignment in place of the swap
Swap_Overwrite(s, a, b) == [s EXCEPT ![a + 1] = s[b + 1]]

Swap(s, a, b) == [s EXCEPT ![a + 1] = s[b + 1], ![b + 1] = s[a + 1]]

RECURSIVE ShuffleFrom(_, _, _)
ShuffleFrom(shuffled, i, rnd) ==
    IF i > 0 THEN ShuffleFrom(Swap(shuffled, i, rnd[i]), i - 1, rnd)
    ELSE shuffled

\* variant: the last element of the result repeats the first one
shuffleArray_RepeatsFirst(array, rnd) ==
    LET shuffled == ShuffleFrom(array, Len(array) - 1, rnd) IN
    IF shuffled = << >> THEN shuffled
    ELSE [shuffled EXCEPT ![Len(shuffled)] = shuffled[1]]

\* shuffleArray(array) with the random indices rnd; works on a copy
shuffleArray(array, rnd) == ShuffleFrom(array, Len(array) - 1, rnd)

\* initializeQuestions() for a pool of n questions and sample size k:
\* the drawn references, the mapping and the fresh answer array
initializeQuestions(n, k, rnd) ==
    LET indices == [i \in 1..n |-> i - 1]
        shuffledIndices == shuffleArray(indices, rnd)
        selectedIndices == Slice(shuffledIndices, k)
    IN  [ shuffledQuestions |-> [i \in 1..Len(selectedIndices) |-> selectedIndices[i] + 1],
          questionMapping   |-> selectedIndices,
          userAnswers       |-> NullArray(k) ]

\* userAnswers.push(value)
RecordAnswer_Push(answers, index, value) == Append(answers, value)

\* userAnswers[index] = value
RecordAnswer(answers, index, value) == [answers EXCEPT ![index + 1] = value]

\* what displayCurrentQuestion puts into #questionContainer
Rendered(ref) == IF Q(ref).type = "interactive" THEN Q(ref).component ELSE "choice"

\* a filter that tests for undefined instead of null
Unanswered_CountsUndefined(answers) ==
    Cardinality({ i \in 1..Len(answers) : answers[i] = UNDEFINED })

\* userAnswers.filter(answer => answer === null).length
Unanswered(answers) == Cardinality({ i \in 1..Len(answers) : answers[i] = NULL })

\* a scorer that compares every answer with question.correct, whatever the type
CountsCorrect_NoTypeCheck(answer, question) == answer = question.correct

\* the body of the forEach of submitQuiz for one (answer, question)
CountsCorrect(answer, question) ==
    IF question.type = "interactive" THEN answer = CORRECT
    ELSE answer = question.correct

\* the forEach loop of submitQuiz, from index i on
RECURSIVE CorrectFrom(_, _, _)
CorrectFrom(answers, questions, i) ==
    IF i > Len(answers) THEN 0
    ELSE (IF CountsCorrect(answers[i], Q(questions[i])) THEN 1 ELSE 0)
         + CorrectFrom(answers, questions, i + 1)

CorrectAnswers(answers, questions) == CorrectFrom(answers, questions, 1)

\* Math.floor in place of Math.round
Percentage_Floor(correctAnswers, length) == (100 * correctAnswers) \div length

\* Math.round((correctAnswers / length) * 100); Math.round(x) is
\* floor(x + 1/2).  Exact for every length below 40, where the double
\* product never falls short of a true half.
Percentage(correctAnswers, length) == (200 * correctAnswers + length) \div (2 * length)

Passed(percentage) == percentage >= PassMark

\* showQuizResults reads q.options of every drawn question; an interactive
\* question has no options, so the template throws a TypeError
ShowQuizResultsThrows(questions) ==
    \E i \in 1..Len(questions) : Q(questions[i]).type = "interactive"

\* const isCorrect = userAnswer === q.correct, the flag of the review
FlaggedCorrect(answer, question) == answer = question.correct

\* what showQuizResults puts into #quizResults: one flag per drawn question,
\* or nothing when the template throws
showQuizResults(answers, questions) ==
    IF ShowQuizResultsThrows(questions)
    THEN [threw |-> TRUE, flags |-> << >>]
    ELSE [threw |-> FALSE,
          flags |-> [i \in 1..Len(questions) |->
                        FlaggedCorrect(answers[i], Q(questions[i]))]]

\* number of '.interactive-component .cmd-input' elements in the document
CmdInputs(container) ==
    IF container = "git-workflow" THEN 2
    ELSE IF container = "branch-practice" THEN 3
    ELSE 0

\* the checkboxes of '.gitignore-options', numbered in document order
Checkboxes(container) == IF container = "gitignore-builder" THEN 1..8 ELSE {}

\* the checkboxes tagged data-correct="true"
ShouldBeChecked == {1, 2, 3, 5, 7}

\* document.querySelector('.btn-check') finds a button
HasCheckButton(container) ==
    container \in {"git-workflow", "branch-practice", "gitignore-builder"}

\* ------------------------------------------------------------------------
\* Commands: a string is the sequence of its characters
\* ------------------------------------------------------------------------
\* The alphabet is ASCII, Latin-1 and the characters named below.  A character
\* above U+00FF is written as its code point, "U+212A" for the Kelvin sign.

\* the characters toLowerCase changes: A-Z, the Latin-1 capitals, and the
\* Kelvin sign, the one character outside ASCII whose lower case is an ASCII
\* letter
UpperCaseLetters ==
    << "A", "B", "C", "D", "E", "F", "G", "H", "I", "J", "K", "L", "M",
       "N", "O", "P", "Q", "R", "S", "T", "U", "V", "W", "X", "Y", "Z",
       "À", "Á", "Â", "Ã", "Ä", "Å", "Æ", "Ç", "È", "É", "Ê", "Ë", "Ì",
       "Í", "Î", "Ï", "Ð", "Ñ", "Ò", "Ó", "Ô", "Õ", "Ö", "Ø", "Ù", "Ú",
       "Û", "Ü", "Ý", "Þ",
       "U+212A" >>

LowerCaseLetters ==
    << "a", "b", "c", "d", "e", "f", "g", "h", "i", "j", "k", "l", "m",
       "n", "o", "p", "q", "r", "s", "t", "u", "v", "w", "x", "y", "z",
       "à", "á", "â", "ã", "ä", "å", "æ", "ç", "è", "é", "ê", "ë", "ì",
       "í", "î", "ï", "ð", "ñ", "ò", "ó", "ô", "õ", "ö", "ø", "ù", "ú",
       "û", "ü", "ý", "þ",
       "k" >>

\* data-answer of the first input of the git-workflow component
GitAddIndexHtml == << "g", "i", "t", " ", "a", "d", "d", " ", "i", "n", "d",
    "e", "x", ".", "h", "t", "m", "l" >>

\* data-answer of the second input of the git-workflow component: the template
\* literal turns \" into ", so the attribute value ends before the word Update
GitCommitM == << "g", "i", "t", " ", "c", "o", "m", "m", "i", "t", " ", "-",
    "m", " " >>

\* data-answer of the inputs of the branch-practice component
GitBranchFeatureLogin == << "g", "i", "t", " ", "b", "r", "a", "n", "c", "h",
    " ", "f", "e", "a", "t", "u", "r", "e", "-", "l", "o", "g", "i", "n" >>

GitCheckoutFeatureLogin == << "g", "i", "t", " ", "c", "h", "e", "c", "k",
    "o", "u", "t", " ", "f", "e", "a", "t", "u", "r", "e", "-", "l", "o",
    "g", "i", "n" >>

GitCheckoutBFeatureLogin == << "g", "i", "t", " ", "c", "h", "e", "c", "k",
    "o", "u", "t", " ", "-", "b", " ", "f", "e", "a", "t", "u", "r", "e",
    "-", "l", "o", "g", "i", "n" >>

\* the other phrasings of the variations table
GitAddDot == << "g", "i", "t", " ", "a", "d", "d", " ", "." >>

GitSwitchFeatureLogin == << "g", "i", "t", " ", "s", "w", "i", "t", "c", "h",
    " ", "f", "e", "a", "t", "u", "r", "e", "-", "l", "o", "g", "i", "n" >>

GitSwitchCFeatureLogin == << "g", "i", "t", " ", "s", "w", "i", "t", "c",
    "h", " ", "-", "c", " ", "f", "e", "a", "t", "u", "r", "e", "-", "l",
    "o", "g", "i", "n" >>

\* the commit command as the source text of the component spells it
GitCommitMQuoted == << "g", "i", "t", " ", "c", "o", "m", "m", "i", "t", " ",
    "-", "m", " ", "\"", "U", "p", "d", "a", "t", "e", " ", "h", "o", "m",
    "e", "p", "a", "g", "e", "\"" >>

\* what a learner may type into a command input
TypedUpperCase == << "G", "I", "T", " ", "A", "D", "D", " ", "I", "N", "D",
    "E", "X", ".", "H", "T", "M", "L" >>

TypedSpacedAddDot == << " ", " ", "g", "i", "t", " ", "\t", " ", "a", "d",
    "d", " ", " ", " ", ".", " " >>

TypedSingleQuoted == << "g", "i", "t", " ", "c", "o", "m", "m", "i", "t",
    " ", "-", "m", " ", "'", "U", "p", "d", "a", "t", "e", " ", " ", "h",
    "o", "m", "e", "p", "a", "g", "e", "'" >>

TypedCommitNoMessage == << "g", "i", "t", " ", "c", "o", "m", "m", "i", "t",
    " ", "-", "m" >>

TypedMixedCaseSwitch == << "G", "i", "t", " ", "S", "w", "i", "t", "c", "h",
    " ", "F", "e", "a", "t", "u", "r", "e", "-", "L", "o", "g", "i", "n" >>

TypedNoSpace == << "g", "i", "t", "a", "d", "d", " ", "i", "n", "d", "e",
    "x", ".", "h", "t", "m", "l" >>

TypedEmpty == << >>

TypedBlank == << " ", " ", " " >>

\* typed with the Kelvin sign in place of the letter k
TypedKelvinCheckout == << "g", "i", "t", " ", "c", "h", "e", "c", "U+212A", "o",
    "u", "t", " ", "f", "e", "a", "t", "u", "r", "e", "-", "l", "o", "g",
    "i", "n" >>

\* typed with no-break spaces around the command and between its words
TypedNoBreakSpaceAddDot == << " ", "g", "i", "t", " ", "a", "d", "d", " ",
    ".", " " >>

\* the lower-case letter of every upper-case letter
LowerOf ==
    [c \in { UpperCaseLetters[k] : k \in 1..Len(UpperCaseLetters) } |->
        LowerCaseLetters[CHOOSE k \in 1..Len(UpperCaseLetters) : UpperCaseLetters[k] = c]]

\* String.prototype.toLowerCase on the characters of a command
toLowerCase(s) ==
    [i \in 1..Len(s) |-> IF s[i] \in DOMAIN LowerOf THEN LowerOf[s[i]] ELSE s[i]]

\* the characters matched by \s, which are also the ones trim removes:
\* space, tab, line feed, carriage return, form feed, vertical tab, no-break
\* space, and the Unicode spaces, separators and the byte order mark
WhiteSpace ==
    {" ", "\t", "\n", "\r", "\f", "", " ",
     "U+1680", "U+2000", "U+2001", "U+2002", "U+2003", "U+2004", "U+2005",
     "U+2006", "U+2007", "U+2008", "U+2009", "U+200A", "U+2028", "U+2029",
     "U+202F", "U+205F", "U+3000", "U+FEFF"}

\* variant: trim that removes nothing
trim_Identity(s) == s

\* String.prototype.trim
trim(s) ==
    LET kept == { i \in 1..Len(s) : s[i] \notin WhiteSpace } IN
    IF kept = {} THEN << >>
    ELSE SubSeq(s, CHOOSE i \in kept : \A j \in kept : i <= j,
                   CHOOSE i \in kept : \A j \in kept : i >= j)

\* .replace(/\s+/g, ' '): every maximal run of whitespace becomes one space
RECURSIVE CollapseWhiteSpace(_)
CollapseWhiteSpace(s) ==
    IF s = << >> THEN << >>
    ELSE IF Head(s) \in WhiteSpace
         THEN IF Len(s) > 1 /\ s[2] \in WhiteSpace
              THEN CollapseWhiteSpace(Tail(s))
              ELSE << " " >> \o CollapseWhiteSpace(Tail(s))
         ELSE << Head(s) >> \o CollapseWhiteSpace(Tail(s))

\* .replace(/['"]/g, '"')
UnifyQuotes(s) == [i \in 1..Len(s) |-> IF s[i] \in {"'", "\""} THEN "\"" ELSE s[i]]

\* variant: normalize without the case folding
normalize_KeepsCase(cmd) == UnifyQuotes(CollapseWhiteSpace(trim(cmd)))

\* const normalize = (cmd) => cmd.toLowerCase().trim().replace(...).replace(...)
normalize(cmd) == UnifyQuotes(CollapseWhiteSpace(trim(toLowerCase(cmd))))

\* the table of accepted phrasings, keyed by the normalized expected command
variations ==
    (GitAddIndexHtml :> { GitAddIndexHtml, GitAddDot })
    @@ (GitCheckoutFeatureLogin :> { GitCheckoutFeatureLogin, GitSwitchFeatureLogin })
    @@ (GitCheckoutBFeatureLogin :> { GitCheckoutBFeatureLogin, GitSwitchCFeatureLogin })

checkCommandEquivalence(userInput, expectedCommand) ==
    LET normalizedUser == normalize(userInput)
        normalizedExpected == normalize(expectedCommand)
    IN  IF normalizedUser = normalizedExpected THEN TRUE
        ELSE IF normalizedExpected \in DOMAIN variations
             THEN \E variant \in variations[normalizedExpected] :
                      normalize(variant) = normalizedUser
             ELSE FALSE

\* input.dataset.answer of the '.cmd-input' elements, in document order
ExpectedCommands(container) ==
    IF container = "git-workflow" THEN << GitAddIndexHtml, GitCommitM >>
    ELSE IF container = "branch-practice"
         THEN << GitBranchFeatureLogin, GitCheckoutFeatureLogin, GitCheckoutBFeatureLogin >>
         ELSE << >>

\* the forEach of checkGitWorkflow and checkBranchPractice: isCorrect of input i
InputVerdicts(typed, container) ==
    [i \in 1..Len(ExpectedCommands(container)) |->
        checkCommandEquivalence(trim(typed[i]), ExpectedCommands(container)[i])]

\* variant: one correct input is enough
GitWorkflowAllCorrect_AnyInput(isCorrect) == \E i \in DOMAIN isCorrect : isCorrect[i]

\* allCorrect of checkGitWorkflow
GitWorkflowAllCorrect(isCorrect) == \A i \in DOMAIN isCorrect : isCorrect[i]

\* variant: every input has to be correct
BranchPracticeCorrect_AllInputs(isCorrect) ==
    Cardinality({ i \in DOMAIN isCorrect : isCorrect[i] }) >= 3

\* correctCount >= 2 of checkBranchPractice
BranchPracticeCorrect(isCorrect) ==
    Cardinality({ i \in DOMAIN isCorrect : isCorrect[i] }) >= 2

\* variant: only the boxes that should be ticked are looked at
GitignoreAllCorrect_TickedOnly(checked, container) ==
    \A c \in Checkboxes(container) : c \in ShouldBeChecked => c \in checked

\* allCorrect of checkGitignoreBuilder
GitignoreAllCorrect(checked, container) ==
    \A c \in Checkboxes(container) : (c \in checked) = (c \in ShouldBeChecked)

\* allCorrect ? 'correct' : 'incorrect'
Verdict(isCorrect) == IF isCorrect THEN CORRECT ELSE INCORRECT

\* the commands offered to the command inputs
TypedCommands ==
    { TypedUpperCase, TypedSpacedAddDot, TypedCommitNoMessage, GitCommitMQuoted,
      GitBranchFeatureLogin, TypedMixedCaseSwitch, GitSwitchCFeatureLogin, TypedEmpty }

\* every content of #questionContainer
Containers == {"none", "choice", "git-workflow", "branch-practice", "gitignore-builder"}

\* for each container, the outcomes of the forEach over every typed content
InputOutcomes ==
    [c \in Containers |->
        { InputVerdicts(typed, c) : typed \in [1..CmdInputs(c) -> TypedCommands] }]

\* ------------------------------------------------------------------------
\* Initial state: the module-level declarations and the load handler
\* ------------------------------------------------------------------------
IdleSampler == [n |-> 0, k |-> 0, done |-> FALSE,
                shuffledQuestions |-> << >>, questionMapping |-> << >>,
                userAnswers |-> << >>]
IdleScorer == [questions |-> << >>, answers |-> << >>, done |-> FALSE, runs |-> 0,
               correctAnswers |-> 0, percentage |-> 0, passed |-> FALSE,
               review |-> [threw |-> FALSE, flags |-> << >>]]
IdleShuffle == [array |-> << >>, rnd |-> << >>, done |-> FALSE,
                shuffled |-> << >>, arrayAfter |-> << >>]
IdleChecker == [component |-> "none", typed |-> << >>, checked |-> {}, done |-> FALSE,
                isCorrect |-> << >>, verdict |-> NULL]
IdleEquiv == [userInput |-> << >>, expectedCommand |-> << >>, done |-> FALSE,
              accepted |-> FALSE]
\* #certificateForm as the page delivers it: the name input and the button
CertificateForm == [content |-> "form", studentName |-> << >>, score |-> 0]

\* ------------------------------------------------------------------------
\* Git simulator and workflow simulator: data
\* ------------------------------------------------------------------------
GetSystemInfoPs1 == << "G", "e", "t", "-", "S", "y", "s", "t", "e", "m", "I",
    "n", "f", "o", ".", "p", "s", "1" >>
InstallSoftwarePs1 == << "I", "n", "s", "t", "a", "l", "l", "-", "S", "o",
    "f", "t", "w", "a", "r", "e", ".", "p", "s", "1" >>
ReadmeMd == << "R", "E", "A", "D", "M", "E", ".", "m", "d" >>
\* the substring unstageFile and executeGitStatus look for
InstallSoftware == << "I", "n", "s", "t", "a", "l", "l", "-", "S", "o", "f",
    "t", "w", "a", "r", "e" >>
InitialCommitMessage == << "I", "n", "i", "t", "i", "a", "l", " ", "P", "o",
    "w", "e", "r", "S", "h", "e", "l", "l", " ", "u", "t", "i", "l", "i",
    "t", "i", "e", "s" >>
DefaultCommitMessage == << "U", "p", "d", "a", "t", "e", " ", "P", "o", "w",
    "e", "r", "S", "h", "e", "l", "l", " ", "s", "c", "r", "i", "p", "t",
    "s" >>
\* the command of the staging-area hint, up to the file name
GitAddPrefix == << "g", "i", "t", " ", "a", "d", "d", " " >>
TypedAddLowerCaseReadme == << "g", "i", "t", " ", "a", "d", "d", " ", "r",
    "e", "a", "d", "m", "e", ".", "m", "d" >>
TypedAddMissingFile == << "g", "i", "t", " ", "a", "d", "d", " ", "n", "o",
    "t", "e", "s", ".", "t", "x", "t" >>
TypedAddNoPathspec == << "g", "i", "t", " ", "a", "d", "d" >>
TypedCommitFix == << "g", "i", "t", " ", "c", "o", "m", "m", "i", "t", " ",
    "-", "m", " ", "\"", "F", "i", "x", " ", "d", "o", "c", "s", "\"" >>
TypedCommit == << "g", "i", "t", " ", "c", "o", "m", "m", "i", "t" >>
TypedStatus == << "g", "i", "t", " ", "s", "t", "a", "t", "u", "s" >>
TypedPush == << "g", "i", "t", " ", "p", "u", "s", "h" >>
TypedLs == << "l", "s" >>
TypedDoubleSpaceCommit == << "g", "i", "t", " ", " ", "c", "o", "m", "m",
    "i", "t" >>

FileNames == { GetSystemInfoPs1, InstallSoftwarePs1, ReadmeMd }

\* the outcomes of Math.random().toString(36).substr(2, 7) that are told apart
CommitHashes == { "b2c3d4e", "c3d4e5f" }

\* simulatorState as the script creates it, and as resetSimulator recreates it
InitialSimulatorState ==
    [workingFiles |-> << [name |-> GetSystemInfoPs1, status |-> "modified"],
                         [name |-> InstallSoftwarePs1, status |-> "new"],
                         [name |-> ReadmeMd, status |-> "modified"] >>,
     stagedFiles |-> << >>,
     commits |-> << [hash |-> "a1b2c3d", message |-> InitialCommitMessage,
                     files |-> 2] >>,
     achievements |-> [id \in {"first-status", "first-add", "first-commit",
                               "clean-slate"} |-> FALSE]]

\* workflowState as the script creates it, and as resetWorkflowSim recreates it
InitialWorkflowState ==
    [currentBranch |-> "main", commits |-> << >>, pushedCommits |-> << >>,
     isFeatureActive |-> FALSE]

\* the messages simulateCommit hands out, in order
commitMessages ==
    << "Add basic system info gathering script",
       "Implement CPU and memory information collection",
       "Add disk space monitoring functionality",
       "Include network adapter information",
       "Add unit tests for system info functions",
       "Update documentation and usage examples" >>

\* Array.prototype.findIndex(f => f.name === fileName): 0-based, -1 if absent
findIndex(files, fileName) ==
    IF \E i \in 1..Len(files) : files[i].name = fileName
    THEN (CHOOSE i \in 1..Len(files) :
             /\ files[i].name = fileName
             /\ \A j \in 1..(i - 1) : files[j].name # fileName) - 1
    ELSE -1

\* Array.prototype.splice(index, 1): the array without the element at index
splice(files, index) ==
    SubSeq(files, 1, index) \o SubSeq(files, index + 2, Len(files))

\* String.prototype.includes
includes(s, sub) ==
    \E i \in 0..(Len(s) - Len(sub)) : SubSeq(s, i + 1, i + Len(sub)) = sub

\* String.prototype.split(' '): the pieces between single spaces
RECURSIVE split(_)
split(s) ==
    IF \A i \in 1..Len(s) : s[i] # " "
    THEN << s >>
    ELSE LET first == CHOOSE i \in 1..Len(s) :
                          /\ s[i] = " "
                          /\ \A j \in 1..(i - 1) : s[j] # " "
         IN  << SubSeq(s, 1, first - 1) >> \o split(SubSeq(s, first + 1, Len(s)))

\* Array.prototype.join(' ')
RECURSIVE join(_)
join(parts) ==
    IF Len(parts) = 0 THEN << >>
    ELSE IF Len(parts) = 1 THEN parts[1]
    ELSE parts[1] \o << " " >> \o join(Tail(parts))

\* String.prototype.replace(/['"]/g, '')
RemoveQuotes(s) == SelectSeq(s, LAMBDA c : c \notin {"'", "\""})

\* Array.prototype.indexOf('-m') on the arguments of git commit
IndexOfDashM(args) ==
    IF \E i \in 1..Len(args) : args[i] = << "-", "m" >>
    THEN (CHOOSE i \in 1..Len(args) :
             /\ args[i] = << "-", "m" >>
             /\ \A j \in 1..(i - 1) : args[j] # << "-", "m" >>) - 1
    ELSE -1

\* unlockAchievement: the achievement is marked once
unlockAchievement(state, achievementId) ==
    [state EXCEPT !.achievements[achievementId] = TRUE]


ProgramInit ==
    /\ currentQuestionIndex = 0
    /\ userAnswers = NullArray(Len(questionPool))
    /\ quizStarted = FALSE
    /\ quizCompleted = FALSE
    /\ finalQuizScore = 0
    /\ shuffledQuestions = << >>
    /\ questionMapping = << >>
    /\ questionContainer = "none"
    /\ certificateSection = "none"
    /\ pendingNav = 0
    /\ pendingFinish = 0
    /\ navCheckedLast = << >>
    /\ currentSection = 0
    /\ savedProgress = NoItem
    /\ loadPending = FALSE
    /\ lastAlert = "none"
    /\ pendingCertificate = << >>
    /\ certificate = CertificateForm
    /\ simulatorState = InitialSimulatorState
    /\ commandOutput = "page"
    /\ workflowState = InitialWorkflowState

Init ==
    /\ ProgramInit
    /\ sampler = IdleSampler
    /\ scorer = IdleScorer
    /\ checker = IdleChecker
    /\ equiv = IdleEquiv
    /\ shuffle = IdleShuffle

\* ------------------------------------------------------------------------
\* Handlers of the quiz
\* ------------------------------------------------------------------------
\* every outcome of initializeQuestions() on the pool
QuizDraws ==
    { initializeQuestions(Len(questionPool), SampleSize, rnd) :
        rnd \in RandomChoices(Len(questionPool)) }

startQuiz ==
    \E drawn \in QuizDraws :
        /\ quizStarted' = TRUE
        /\ currentQuestionIndex' = 0
        /\ shuffledQuestions' = drawn.shuffledQuestions
        /\ questionMapping' = drawn.questionMapping
        /\ userAnswers' = drawn.userAnswers
        /\ questionContainer' = Rendered(drawn.shuffledQuestions[1])
        /\ UNCHANGED << quizCompleted, finalQuizScore, certificateSection, timerVars,
                        sectionVars, lastAlert, auxVars >>

selectAnswer ==
    \E answerIndex \in 0..MaxAnswerIndex :
        /\ userAnswers' = RecordAnswer(userAnswers, currentQuestionIndex, answerIndex)
        /\ UNCHANGED << currentQuestionIndex, quizStarted, quizCompleted, finalQuizScore,
                        shuffledQuestions, questionMapping, domVars, timerVars,
                        sectionVars, lastAlert, auxVars >>

\* variant: the verdict of the first check is kept
StoreVerdict_KeepsFirst(isCorrect) ==
    /\ userAnswers' = IF userAnswers[currentQuestionIndex + 1] \in {CORRECT, INCORRECT}
                      THEN userAnswers
                      ELSE RecordAnswer(userAnswers, currentQuestionIndex, Verdict(isCorrect))
    /\ IF isCorrect /\ HasCheckButton(questionContainer)
       THEN /\ pendingNav < MaxPending
            /\ pendingNav' = pendingNav + 1
            /\ navCheckedLast' =
                   Append(navCheckedLast,
                          currentQuestionIndex = Len(shuffledQuestions) - 1)
       ELSE UNCHANGED << pendingNav, navCheckedLast >>
    /\ UNCHANGED << currentQuestionIndex, quizStarted, quizCompleted, finalQuizScore,
                    shuffledQuestions, questionMapping, domVars, pendingFinish,
                    sectionVars, lastAlert, auxVars >>

\* the common tail of the three checkers: store the verdict and, when it is
\* 'correct', hide the check button and schedule updateQuizNavigation
StoreVerdict(isCorrect) ==
    /\ userAnswers' = RecordAnswer(userAnswers, currentQuestionIndex, Verdict(isCorrect))
    /\ IF isCorrect /\ HasCheckButton(questionContainer)
       THEN /\ pendingNav < MaxPending
            /\ pendingNav' = pendingNav + 1
            /\ navCheckedLast' =
                   Append(navCheckedLast,
                          currentQuestionIndex = Len(shuffledQuestions) - 1)
       ELSE \* not correct, or TypeError on the missing button
            UNCHANGED << pendingNav, navCheckedLast >>
    /\ UNCHANGED << currentQuestionIndex, quizStarted, quizCompleted, finalQuizScore,
                    shuffledQuestions, questionMapping, domVars, pendingFinish,
                    sectionVars, lastAlert, auxVars >>

checkGitWorkflow ==
    \E isCorrect \in InputOutcomes[questionContainer] :
        StoreVerdict(GitWorkflowAllCorrect(isCorrect))

checkBranchPractice ==
    \E isCorrect \in InputOutcomes[questionContainer] :
        StoreVerdict(BranchPracticeCorrect(isCorrect))

\* the tick patterns of the eight checkboxes offered to checkGitignoreBuilder
TickPatterns ==
    { checked \in SUBSET (1..8) :
        Cardinality({ c \in 1..8 : (c \in checked) # (c \in ShouldBeChecked) }) <= MaxWrongBoxes }

checkGitignoreBuilder ==
    \E checked \in (IF questionContainer = "gitignore-builder" THEN TickPatterns ELSE {{}}) :
        IF questionContainer = "gitignore-builder"
        THEN StoreVerdict(GitignoreAllCorrect(checked, questionContainer))
        ELSE \* no '.gitignore-content' element: TypeError before the store
             UNCHANGED << quizVars, domVars, timerVars, sectionVars, lastAlert, auxVars >>

\* the timer callback of the checkers
updateQuizNavigation ==
    /\ pendingNav > 0
    /\ pendingNav' = pendingNav - 1
    /\ navCheckedLast' = Tail(navCheckedLast)
    /\ IF currentQuestionIndex = Len(shuffledQuestions) - 1
       THEN /\ pendingFinish < MaxPending
            /\ pendingFinish' = pendingFinish + 1
       ELSE pendingFinish' = pendingFinish
    /\ UNCHANGED << quizVars, domVars, sectionVars, lastAlert, auxVars >>

\* the timer callback () => finishQuiz(): no function of that name exists,
\* the callback ends with a ReferenceError
finishQuizTimer ==
    /\ pendingFinish > 0
    /\ pendingFinish' = pendingFinish - 1
    /\ UNCHANGED << quizVars, domVars, pendingNav, navCheckedLast, sectionVars,
                    lastAlert, auxVars >>

\* a nextQuestion that wraps around to the first question
nextQuestion_Wraps ==
    /\ IF Len(shuffledQuestions) > 0
       THEN /\ currentQuestionIndex' = (currentQuestionIndex + 1) % Len(shuffledQuestions)
            /\ questionContainer' = Rendered(shuffledQuestions[currentQuestionIndex' + 1])
       ELSE UNCHANGED << currentQuestionIndex, questionContainer >>
    /\ UNCHANGED << userAnswers, quizStarted, quizCompleted, finalQuizScore,
                    shuffledQuestions, questionMapping, certificateSection, timerVars,
                    sectionVars, lastAlert, auxVars >>

nextQuestion ==
    /\ IF currentQuestionIndex < Len(shuffledQuestions) - 1
       THEN /\ currentQuestionIndex' = currentQuestionIndex + 1
            /\ questionContainer' = Rendered(shuffledQuestions[currentQuestionIndex' + 1])
       ELSE UNCHANGED << currentQuestionIndex, questionContainer >>
    /\ UNCHANGED << userAnswers, quizStarted, quizCompleted, finalQuizScore,
                    shuffledQuestions, questionMapping, certificateSection, timerVars,
                    sectionVars, lastAlert, auxVars >>

previousQuestion ==
    /\ IF currentQuestionIndex > 0
       THEN /\ currentQuestionIndex' = currentQuestionIndex - 1
            /\ questionContainer' = Rendered(shuffledQuestions[currentQuestionIndex' + 1])
       ELSE UNCHANGED << currentQuestionIndex, questionContainer >>
    /\ UNCHANGED << userAnswers, quizStarted, quizCompleted, finalQuizScore,
                    shuffledQuestions, questionMapping, certificateSection, timerVars,
                    sectionVars, lastAlert, auxVars >>

\* variant: the forEach of the scoring step writes each verdict back into
\* userAnswers
submitQuiz_StoresVerdicts ==
    /\ IF Unanswered(userAnswers) > 0
       THEN /\ lastAlert' = "unanswered"
            /\ UNCHANGED << quizVars, domVars, timerVars, sectionVars, auxVars >>
       ELSE /\ quizCompleted' = TRUE
            /\ IF Len(userAnswers) > Len(shuffledQuestions)
               THEN UNCHANGED << userAnswers, finalQuizScore, certificateSection >>
               ELSE LET correctAnswers == CorrectAnswers(userAnswers, shuffledQuestions)
                        percentage == Percentage(correctAnswers, Len(shuffledQuestions))
                    IN  /\ userAnswers' =
                             [i \in 1..Len(userAnswers) |->
                                 IF CountsCorrect(userAnswers[i], Q(shuffledQuestions[i]))
                                 THEN CORRECT ELSE INCORRECT]
                        /\ finalQuizScore' = percentage
                        /\ certificateSection' =
                             IF ~ShowQuizResultsThrows(shuffledQuestions) /\ Passed(percentage)
                             THEN "block"
                             ELSE certificateSection
            /\ UNCHANGED << currentQuestionIndex, quizStarted,
                            shuffledQuestions, questionMapping, questionContainer,
                            timerVars, sectionVars, lastAlert, auxVars >>

submitQuiz ==
    /\ IF Unanswered(userAnswers) > 0
       THEN \* alert(...); return
            /\ lastAlert' = "unanswered"
            /\ UNCHANGED << quizVars, domVars, timerVars, sectionVars, auxVars >>
       ELSE /\ quizCompleted' = TRUE
            /\ IF Len(userAnswers) > Len(shuffledQuestions)
               THEN \* shuffledQuestions[index] is undefined: TypeError in the forEach
                    UNCHANGED << finalQuizScore, certificateSection >>
               ELSE LET correctAnswers == CorrectAnswers(userAnswers, shuffledQuestions)
                        percentage == Percentage(correctAnswers, Len(shuffledQuestions))
                    IN  /\ finalQuizScore' = percentage
                        /\ certificateSection' =
                             IF ~ShowQuizResultsThrows(shuffledQuestions) /\ Passed(percentage)
                             THEN "block"
                             ELSE certificateSection
            /\ UNCHANGED << currentQuestionIndex, userAnswers, quizStarted,
                            shuffledQuestions, questionMapping, questionContainer,
                            timerVars, sectionVars, lastAlert, auxVars >>

\* variant: retakeQuiz re-shuffles the questions but keeps the answers
retakeQuiz_KeepsAnswers ==
    \E drawn \in QuizDraws :
        /\ currentQuestionIndex' = 0
        /\ quizCompleted' = FALSE
        /\ shuffledQuestions' = drawn.shuffledQuestions
        /\ questionMapping' = drawn.questionMapping
        /\ userAnswers' = userAnswers
        /\ certificateSection' = "none"
        /\ UNCHANGED << quizStarted, finalQuizScore, questionContainer, timerVars,
                        sectionVars, lastAlert, auxVars >>

retakeQuiz ==
    \E drawn \in QuizDraws :
        /\ currentQuestionIndex' = 0
        /\ quizCompleted' = FALSE
        /\ shuffledQuestions' = drawn.shuffledQuestions
        /\ questionMapping' = drawn.questionMapping
        /\ userAnswers' = drawn.userAnswers
        /\ certificateSection' = "none"
        /\ UNCHANGED << quizStarted, finalQuizScore, questionContainer, timerVars,
                        sectionVars, lastAlert, auxVars >>

\* keydown Ctrl+Shift+C.  showQuizResults throws once questions are drawn (they
\* include an interactive question), which skips the display of the
\* certificate section; the timer that pre-fills the name input touches no
\* variable of the quiz.
jumpToCertificate ==
    /\ currentSection' = finalQuizIndex                  \* showSection(finalQuizIndex)
    /\ savedProgress' = Item(NumberToString(finalQuizIndex))   \* saveProgress()
    /\ quizCompleted' = TRUE
    /\ quizStarted' = TRUE
    /\ finalQuizScore' = 100
    /\ userAnswers' = [i \in 1..Len(questionPool) |-> questionPool[i].correct]
    /\ certificateSection' =
         IF ShowQuizResultsThrows(shuffledQuestions) THEN certificateSection ELSE "block"
    /\ UNCHANGED << currentQuestionIndex, shuffledQuestions, questionMapping,
                    questionContainer, timerVars, loadPending, lastAlert, auxVars >>

Next ==
    \/ startQuiz
    \/ selectAnswer
    \/ checkGitWorkflow
    \/ checkBranchPractice
    \/ checkGitignoreBuilder
    \/ updateQuizNavigation
    \/ finishQuizTimer
    \/ nextQuestion
    \/ previousQuestion
    \/ submitQuiz
    \/ retakeQuiz
    \/ jumpToCertificate

Spec == Init /\ [][Next]_vars

\* ------------------------------------------------------------------------
\* SamplerSpec: initializeQuestions as a function of the pool size n, the
\* sample size k and the random indices
\* ------------------------------------------------------------------------
SamplerInit ==
    /\ ProgramInit
    /\ scorer = IdleScorer
    /\ checker = IdleChecker
    /\ equiv = IdleEquiv
    /\ shuffle = IdleShuffle
    /\ sampler \in { [IdleSampler EXCEPT !.n = n, !.k = k] :
                        n \in 0..MaxPool, k \in 0..(MaxPool + 1) }

Sample ==
    /\ ~sampler.done
    /\ \E rnd \in RandomChoices(sampler.n) :
         LET drawn == initializeQuestions(sampler.n, sampler.k, rnd) IN
         sampler' = [n |-> sampler.n, k |-> sampler.k, done |-> TRUE,
                     shuffledQuestions |-> drawn.shuffledQuestions,
                     questionMapping |-> drawn.questionMapping,
                     userAnswers |-> drawn.userAnswers]
    /\ UNCHANGED << quizVars, domVars, timerVars, sectionVars, lastAlert, scorer,
                    checker, equiv, shuffle, certVars, simVars >>

SamplerNext == Sample

SamplerSpec == SamplerInit /\ [][SamplerNext]_vars

\* ------------------------------------------------------------------------
\* ScorerSpec: the scoring step of submitQuiz as a function of the drawn
\* questions and a fully answered answer array
\* ------------------------------------------------------------------------
\* the values a slot can hold besides null
AnswerValues == (0..MaxAnswerIndex) \cup {CORRECT, INCORRECT, UNDEFINED}

\* every attempt of 1..MaxAttemptLen questions with every answer array
SmallAttempts ==
    UNION { { [IdleScorer EXCEPT !.questions = qs, !.answers = as] :
                qs \in [1..len -> 1..Len(questionPool)],
                as \in [1..len -> AnswerValues] } : len \in 1..MaxAttemptLen }

\* attempts of 1..SampleSize choice questions of which the first c are
\* answered with the correct index and the others with index 0
LongAttempts ==
    { [IdleScorer EXCEPT !.questions = [i \in 1..len |-> 1],
                         !.answers = [i \in 1..len |->
                                         IF i <= c THEN questionPool[1].correct ELSE 0]] :
        len \in 1..SampleSize, c \in 0..SampleSize }

ScorerInit ==
    /\ ProgramInit
    /\ sampler = IdleSampler
    /\ checker = IdleChecker
    /\ equiv = IdleEquiv
    /\ shuffle = IdleShuffle
    /\ scorer \in SmallAttempts \cup LongAttempts

\* the scoring step of submitQuiz and its call of showQuizResults; it can be
\* run again on the same attempt
Score ==
    /\ scorer.runs < MaxScorings
    /\ LET correctAnswers == CorrectAnswers(scorer.answers, scorer.questions)
           percentage == Percentage(correctAnswers, Len(scorer.questions))
       IN  scorer' = [scorer EXCEPT !.done = TRUE,
                                    !.runs = @ + 1,
                                    !.correctAnswers = correctAnswers,
                                    !.percentage = percentage,
                                    !.passed = Passed(percentage),
                                    !.review = showQuizResults(scorer.answers,
                                                               scorer.questions)]
    /\ UNCHANGED << quizVars, domVars, timerVars, sectionVars, lastAlert, sampler,
                    checker, equiv, shuffle, certVars, simVars >>

ScorerNext == Score

ScorerSpec == ScorerInit /\ [][ScorerNext]_vars

\* ------------------------------------------------------------------------
\* EquivSpec: checkCommandEquivalence as a function of the two strings
\* ------------------------------------------------------------------------
UserStrings ==
    TypedCommands \cup { GitAddIndexHtml, GitAddDot, GitSwitchFeatureLogin,
                         GitCheckoutFeatureLogin, GitCheckoutBFeatureLogin,
                         TypedSingleQuoted, TypedNoSpace, TypedBlank,
                         TypedKelvinCheckout, TypedNoBreakSpaceAddDot }

ExpectedStrings ==
    { GitAddIndexHtml, GitCommitM, GitCommitMQuoted, GitBranchFeatureLogin,
      GitCheckoutFeatureLogin, GitCheckoutBFeatureLogin }

EquivInit ==
    /\ ProgramInit
    /\ sampler = IdleSampler
    /\ scorer = IdleScorer
    /\ checker = IdleChecker
    /\ shuffle = IdleShuffle
    /\ equiv \in { [IdleEquiv EXCEPT !.userInput = u, !.expectedCommand = e] :
                     u \in UserStrings, e \in ExpectedStrings }

Compare ==
    /\ ~equiv.done
    /\ equiv' = [equiv EXCEPT !.done = TRUE,
                              !.accepted = checkCommandEquivalence(equiv.userInput,
                                                                   equiv.expectedCommand)]
    /\ UNCHANGED << quizVars, domVars, timerVars, sectionVars, lastAlert, sampler,
                    scorer, checker, shuffle, certVars, simVars >>

EquivNext == Compare

EquivSpec == EquivInit /\ [][EquivNext]_vars

\* ------------------------------------------------------------------------
\* CheckerSpec: the verdict of the three checkers as a function of what the
\* learner entered into the rendered component
\* ------------------------------------------------------------------------
CheckerInputs ==
    UNION { { [IdleChecker EXCEPT !.component = c, !.typed = typed] :
                typed \in [1..CmdInputs(c) -> TypedCommands] } :
            c \in {"git-workflow", "branch-practice"} }
    \cup { [IdleChecker EXCEPT !.component = "gitignore-builder", !.checked = checked] :
             checked \in SUBSET (1..8) }

CheckerInit ==
    /\ ProgramInit
    /\ sampler = IdleSampler
    /\ scorer = IdleScorer
    /\ equiv = IdleEquiv
    /\ shuffle = IdleShuffle
    /\ checker \in CheckerInputs

CheckGitWorkflowInputs ==
    /\ ~checker.done
    /\ checker.component = "git-workflow"
    /\ LET isCorrect == InputVerdicts(checker.typed, checker.component) IN
       checker' = [checker EXCEPT !.done = TRUE, !.isCorrect = isCorrect,
                                  !.verdict = Verdict(GitWorkflowAllCorrect(isCorrect))]
    /\ UNCHANGED << quizVars, domVars, timerVars, sectionVars, lastAlert, sampler,
                    scorer, equiv, shuffle, certVars, simVars >>

CheckBranchPracticeInputs ==
    /\ ~checker.done
    /\ checker.component = "branch-practice"
    /\ LET isCorrect == InputVerdicts(checker.typed, checker.component) IN
       checker' = [checker EXCEPT !.done = TRUE, !.isCorrect = isCorrect,
                                  !.verdict = Verdict(BranchPracticeCorrect(isCorrect))]
    /\ UNCHANGED << quizVars, domVars, timerVars, sectionVars, lastAlert, sampler,
                    scorer, equiv, shuffle, certVars, simVars >>

CheckGitignoreBoxes ==
    /\ ~checker.done
    /\ checker.component = "gitignore-builder"
    /\ checker' = [checker EXCEPT
                     !.done = TRUE,
                     !.verdict = Verdict(GitignoreAllCorrect(checker.checked,
                                                             checker.component))]
    /\ UNCHANGED << quizVars, domVars, timerVars, sectionVars, lastAlert, sampler,
                    scorer, equiv, shuffle, certVars, simVars >>

CheckerNext == CheckGitWorkflowInputs \/ CheckBranchPracticeInputs \/ CheckGitignoreBoxes

CheckerSpec == CheckerInit /\ [][CheckerNext]_vars

\* ------------------------------------------------------------------------
\* CertificateSpec: the certificate form next to the handlers that set the
\* score it prints
\* ------------------------------------------------------------------------
\* contents of the #studentName input
StudentNamePadded == << " ", "A", "d", "a", " ", "L", " ", " " >>

StudentNameBo == << "B", "o" >>

\* nothing but no-break spaces
StudentNameNoBreakSpaces == << " ", " " >>

\* the contents of the name input offered to generateCertificate; a missing
\* input element reads as the empty string
NameInputs ==
    { TypedEmpty, TypedBlank, StudentNameNoBreakSpaces, StudentNamePadded, StudentNameBo }

\* the body of generateCertificate for one content of the name input
GenerateCertificateFor(value) ==
    LET studentName == trim(value) IN
    IF studentName = << >>
    THEN /\ lastAlert' = "name-required"
         /\ UNCHANGED << quizVars, domVars, timerVars, sectionVars, auxVars >>
    ELSE /\ Len(pendingCertificate) < MaxPending
         /\ certificate' = [content |-> "loading", studentName |-> << >>, score |-> 0]
         /\ pendingCertificate' = Append(pendingCertificate, studentName)
         /\ UNCHANGED << quizVars, domVars, timerVars, sectionVars, lastAlert,
                         sampler, scorer, checker, equiv, shuffle, simVars >>

generateCertificate == \E value \in NameInputs : GenerateCertificateFor(value)

\* the timer callback of generateCertificate: finalQuizScore is read here
certificateTimer ==
    /\ pendingCertificate # << >>
    /\ certificate' = [content |-> "certificate",
                       studentName |-> Head(pendingCertificate),
                       score |-> finalQuizScore]
    /\ pendingCertificate' = Tail(pendingCertificate)
    /\ UNCHANGED << quizVars, domVars, timerVars, sectionVars, lastAlert,
                    sampler, scorer, checker, equiv, shuffle, simVars >>

CertificateNext ==
    \/ startQuiz
    \/ submitQuiz
    \/ retakeQuiz
    \/ jumpToCertificate
    \/ generateCertificate
    \/ certificateTimer

CertificateSpec == Init /\ [][CertificateNext]_vars

\* ------------------------------------------------------------------------
\* SectionSpec: the section cursor, its stored copy and the page load
\* ------------------------------------------------------------------------
\* variant: showSection without the trailing saveProgress()
showSection_NoSave(index) ==
    /\ currentSection' = index
    /\ UNCHANGED << savedProgress, loadPending, quizVars, domVars, timerVars,
                    lastAlert, auxVars >>

\* showSection(index): the cursor is set and saveProgress() stores it
showSection(index) ==
    /\ currentSection' = index
    /\ savedProgress' = Item(NumberToString(index))
    /\ UNCHANGED << loadPending, quizVars, domVars, timerVars, lastAlert, auxVars >>

\* variant: nextSection without the test for the last section
nextSection_NoGuard == showSection(currentSection + 1)

nextSection ==
    IF currentSection < Len(sections) - 1
    THEN showSection(currentSection + 1)
    ELSE UNCHANGED vars

previousSection ==
    IF currentSection > 0
    THEN showSection(currentSection - 1)
    ELSE UNCHANGED vars

\* the names navigateToSection is called with: the section names, the section
\* of a quiz question, and a name that is no section
SectionNames == { sections[i] : i \in 1..Len(sections) } \cup { "glossary" }

NavigateTo(sectionName) ==
    LET sectionIndex == indexOf(sections, sectionName) IN
    IF sectionIndex # -1
    THEN showSection(sectionIndex)
    ELSE UNCHANGED vars

navigateToSection == \E sectionName \in SectionNames : NavigateTo(sectionName)

\* the click handler of a '.nav-link' element; initializeNavigation adds it
\* from the DOMContentLoaded listener, so a link of a document whose event is
\* still to come has no handler
clickNavLink ==
    /\ ~loadPending
    /\ \E sectionId \in SectionNames :
         LET sectionIndex == indexOf(sections, sectionId) IN
         IF sectionIndex # -1
         THEN showSection(sectionIndex)
         ELSE UNCHANGED vars

\* the keydown handler for a key without Ctrl+Shift+C
KeydownWith(key) ==
    IF key = "ArrowLeft" /\ currentSection > 0 THEN previousSection
    ELSE IF key = "ArrowRight" /\ currentSection < Len(sections) - 1 THEN nextSection
    ELSE UNCHANGED vars

keydown == \E key \in {"ArrowLeft", "ArrowRight", "Enter"} : KeydownWith(key)

\* the page is loaded again, first step: the document starts over and
\* script.js is evaluated in it.  The top-level declarations give the script's
\* variables (the two simulators included) their initial values and the
\* listeners of the document are registered; timers of the old document are
\* gone.  localStorage is not touched: the key keeps what was stored.
pageLoad ==
    /\ currentQuestionIndex' = 0
    /\ userAnswers' = NullArray(Len(questionPool))
    /\ quizStarted' = FALSE
    /\ quizCompleted' = FALSE
    /\ finalQuizScore' = 0
    /\ shuffledQuestions' = << >>
    /\ questionMapping' = << >>
    /\ questionContainer' = "none"
    /\ certificateSection' = "none"
    /\ pendingNav' = 0
    /\ pendingFinish' = 0
    /\ navCheckedLast' = << >>
    /\ currentSection' = 0
    /\ loadPending' = TRUE
    /\ lastAlert' = "none"
    /\ pendingCertificate' = << >>
    /\ certificate' = CertificateForm
    /\ simulatorState' = InitialSimulatorState
    /\ workflowState' = InitialWorkflowState
    /\ commandOutput' = "page"
    /\ UNCHANGED << savedProgress, sampler, scorer, checker, equiv, shuffle >>

\* the page is loaded again, second step: the DOMContentLoaded listener removes
\* the stored key and sets the cursor to 0.  Handlers that ran since the script
\* was evaluated keep what they wrote to the other variables.
domContentLoaded ==
    /\ loadPending
    /\ savedProgress' = NoItem
    /\ currentSection' = 0
    /\ loadPending' = FALSE
    /\ UNCHANGED << quizVars, domVars, timerVars, lastAlert, auxVars >>

\* ------------------------------------------------------------------------
\* ShuffleSpec: shuffleArray as a function of the array and the random indices
\* ------------------------------------------------------------------------
\* the arrays given to shuffleArray; elements may repeat
ShuffleInputs ==
    UNION { [1..len -> 0..MaxShuffleValue] : len \in 0..MaxShuffleLen }

ShuffleInit ==
    /\ ProgramInit
    /\ sampler = IdleSampler
    /\ scorer = IdleScorer
    /\ checker = IdleChecker
    /\ equiv = IdleEquiv
    /\ shuffle \in { [IdleShuffle EXCEPT !.array = array] : array \in ShuffleInputs }

\* one call of shuffleArray; the caller's array is read, never written
Shuffle ==
    /\ ~shuffle.done
    /\ \E rnd \in RandomChoices(Len(shuffle.array)) :
         shuffle' = [shuffle EXCEPT !.done = TRUE,
                                    !.rnd = rnd,
                                    !.shuffled = shuffleArray(shuffle.array, rnd),
                                    !.arrayAfter = shuffle.array]
    /\ UNCHANGED << quizVars, domVars, timerVars, sectionVars, lastAlert, sampler,
                    scorer, checker, equiv, certVars, simVars >>

ShuffleNext == Shuffle

ShuffleSpec == ShuffleInit /\ [][ShuffleNext]_vars

\* ------------------------------------------------------------------------
\* Properties
\* ------------------------------------------------------------------------
InProgress == quizStarted /\ ~quizCompleted /\ shuffledQuestions # << >>

HasNullSlot == \E i \in 1..Len(userAnswers) : userAnswers[i] = NULL

\* C1: once an attempt has been created, userAnswers has exactly as many
\* slots as shuffledQuestions has drawn questions.
C1_AnswerLengthMatchesDraw ==
    shuffledQuestions # << >> => Len(userAnswers) = Len(shuffledQuestions)

\* C2: in an attempt in progress whose every cursor position holds an answer,
\* submitQuiz is not blocked and sets quizCompleted.
C2_SubmitCompletesAnsweredAttempt ==
    [][ ( /\ submitQuiz
          /\ InProgress
          /\ \A i \in 1..Len(shuffledQuestions) : userAnswers[i] # NULL )
        => quizCompleted' ]_vars

\* C3: submitQuiz on an answer array with at least one null slot changes no
\* quiz variable (flags, score, answers, draw, cursor) and shows no certificate.
C3_BlockedSubmitChangesNothing ==
    [][ (submitQuiz /\ HasNullSlot) => UNCHANGED << quizVars, domVars >> ]_vars

C3_Witness ==
    /\ lastAlert = "unanswered"
    /\ InProgress
    /\ HasNullSlot
    /\ userAnswers[1] # NULL
    /\ finalQuizScore = 0

\* the positions the scoring rule of section 4.3 counts as correct
CorrectPositions(answers, questions) ==
    { i \in 1..Len(questions) :
        \/ Q(questions[i]).type = "choice" /\ answers[i] = Q(questions[i]).correct
        \/ Q(questions[i]).type = "interactive" /\ answers[i] = CORRECT }

\* C4: the number of answers the scorer counts correct is the number of
\* positions holding the correct option index of a choice question or the
\* 'correct' verdict of an interactive question.
C4_CorrectCountMatchesRule ==
    scorer.done =>
        scorer.correctAnswers = Cardinality(CorrectPositions(scorer.answers, scorer.questions))

C4_Witness ==
    /\ scorer.done
    /\ scorer.questions = << 1, 2 >>
    /\ scorer.answers = << 1, CORRECT >>
    /\ scorer.correctAnswers = 2

\* C5: the percentage is 100*c/K rounded to the nearest integer, halves up;
\* the attempt passes iff the percentage is at least 80; an attempt of 20
\* questions passes iff c >= 16.
C5_PercentageRoundsHalfUp ==
    scorer.done =>
        LET K == Len(scorer.questions)
            c == scorer.correctAnswers
            p == scorer.percentage
        IN  /\ 2 * p * K - K <= 200 * c
            /\ 200 * c < 2 * p * K + K
            /\ scorer.passed <=> (p >= 80)
            /\ (K = 20) => (scorer.passed <=> (c >= 16))

C5_Witness ==
    /\ scorer.done
    /\ Len(scorer.questions) = 20
    /\ scorer.correctAnswers = 16
    /\ scorer.percentage = 80
    /\ scorer.passed

\* C6: the certificate section becomes available only by a submitQuiz on a
\* fully answered attempt that scores at least 80, and the score then stored
\* for the certificate is the percentage of that attempt.
C6_CertificateOnlyAfterPassingSubmit ==
    [][ (certificateSection' = "block" /\ certificateSection # "block")
        => ( /\ submitQuiz
             /\ ~HasNullSlot
             /\ finalQuizScore' >= 80
             /\ finalQuizScore' = Percentage(CorrectAnswers(userAnswers, shuffledQuestions),
                                             Len(shuffledQuestions)) ) ]_vars

\* C7: for a sample size k not above the pool size n the sampler draws
\* exactly k pairwise distinct questions of the pool.
C7_SampleIsDistinctSubset ==
    (sampler.done /\ sampler.k <= sampler.n) =>
        /\ Len(sampler.shuffledQuestions) = sampler.k
        /\ \A i \in 1..Len(sampler.shuffledQuestions) :
              sampler.shuffledQuestions[i] \in 1..sampler.n
        /\ \A i, j \in 1..Len(sampler.shuffledQuestions) :
              i # j => sampler.shuffledQuestions[i] # sampler.shuffledQuestions[j]

C7_Witness ==
    /\ sampler.done
    /\ sampler.n = 4
    /\ sampler.k = 3
    /\ sampler.shuffledQuestions = << 3, 1, 4 >>

\* C8: with a sample size above the pool size no attempt is in progress.
C8_NoAttemptWhenSampleExceedsPool ==
    SampleSize > Len(questionPool) => ~InProgress

\* C9: during an attempt the cursor stays within 0..K-1; nextQuestion and
\* previousQuestion move it by exactly one, and at K-1 respectively 0 they
\* leave the whole state unchanged.
C9_CursorStaysInRange ==
    [][ /\ shuffledQuestions' # << >> =>
             currentQuestionIndex' \in 0..(Len(shuffledQuestions') - 1)
        /\ nextQuestion =>
             IF currentQuestionIndex = Len(shuffledQuestions) - 1
             THEN UNCHANGED vars
             ELSE shuffledQuestions # << >> => currentQuestionIndex' = currentQuestionIndex + 1
        /\ previousQuestion =>
             IF currentQuestionIndex = 0
             THEN UNCHANGED vars
             ELSE currentQuestionIndex' = currentQuestionIndex - 1 ]_vars

C9_Witness ==
    /\ InProgress
    /\ Len(shuffledQuestions) > 1
    /\ currentQuestionIndex = Len(shuffledQuestions) - 1
    /\ questionContainer = Rendered(shuffledQuestions[currentQuestionIndex + 1])

\* C10: selectAnswer(v) makes the slot at the cursor hold v and leaves every
\* other slot, the length of the answer array, the drawn questions, the
\* cursor and the completion flag unchanged; recording v again changes nothing.
C10_SelectAnswerWritesOneSlot ==
    [][ selectAnswer =>
          /\ \E v \in 0..MaxAnswerIndex :
                /\ userAnswers'[currentQuestionIndex + 1] = v
                /\ RecordAnswer(userAnswers', currentQuestionIndex, v) = userAnswers'
          /\ Len(userAnswers') = Len(userAnswers)
          /\ \A j \in 1..Len(userAnswers) :
                j # currentQuestionIndex + 1 => userAnswers'[j] = userAnswers[j]
          /\ UNCHANGED << shuffledQuestions, questionMapping, currentQuestionIndex,
                          quizStarted, quizCompleted, finalQuizScore >> ]_vars

C10_Witness ==
    /\ InProgress
    /\ currentQuestionIndex = 1
    /\ userAnswers[2] = 0
    /\ userAnswers[1] = 1

\* C11: recording an answer is legal only while the quiz is InProgress: when no
\* attempt is in progress (not started, or completed), selectAnswer and the
\* interactive checkers leave every answer slot as it was.
C11_AnswersRecordedOnlyInProgress ==
    [][ (~InProgress /\ (selectAnswer \/ checkGitWorkflow \/ checkBranchPractice
                           \/ checkGitignoreBuilder))
        => userAnswers' = userAnswers ]_vars

\* the state a successful submitQuiz leaves: the attempt is completed, fully
\* answered, and the stored score is the score of its answers
SubmitSucceeded ==
    /\ quizCompleted
    /\ shuffledQuestions # << >>
    /\ Len(userAnswers) = Len(shuffledQuestions)
    /\ \A i \in 1..Len(userAnswers) : userAnswers[i] # NULL
    /\ finalQuizScore = Percentage(CorrectAnswers(userAnswers, shuffledQuestions),
                                   Len(shuffledQuestions))

\* C12: Completed is terminal for an attempt: once submitQuiz has succeeded,
\* selectAnswer, an interactive check, navigation, a second submitQuiz and the
\* pending timers leave the attempt's answers, its drawn questions and its
\* stored score as they are (only a retake replaces them).
C12_CompletedAttemptIsImmutable ==
    [][ (SubmitSucceeded
         /\ (selectAnswer \/ checkGitWorkflow \/ checkBranchPractice
                \/ checkGitignoreBuilder \/ nextQuestion \/ previousQuestion
                \/ submitQuiz \/ updateQuizNavigation \/ finishQuizTimer))
        => UNCHANGED << userAnswers, shuffledQuestions, finalQuizScore >> ]_vars

\* the attempt is new: every slot null, cursor on the first question, not
\* completed, and the draw holds distinct questions of the pool
FreshAttempt ==
    /\ \A i \in 1..Len(userAnswers) : userAnswers[i] = NULL
    /\ currentQuestionIndex = 0
    /\ ~quizCompleted
    /\ shuffledQuestions # << >>
    /\ \A i \in 1..Len(shuffledQuestions) : shuffledQuestions[i] \in 1..Len(questionPool)
    /\ \A i, j \in 1..Len(shuffledQuestions) :
           shuffledQuestions[i] = shuffledQuestions[j] => i = j

\* C13: after a retake (retakeQuiz followed by startQuiz) the new attempt has
\* every slot unanswered, the cursor at 0, the completion flag cleared and a
\* duplicate-free draw: retakeQuiz always leaves a fresh attempt, and startQuiz
\* on an attempt that is not completed leaves a fresh attempt again.
C13_RetakeStartsFreshAttempt ==
    [][ /\ retakeQuiz => FreshAttempt'
        /\ (startQuiz /\ ~quizCompleted) => (FreshAttempt' /\ quizStarted') ]_vars

\* a second attempt is under way after an attempt that was submitted and scored
C13_Witness ==
    /\ FreshAttempt
    /\ quizStarted
    /\ questionContainer # "none"
    /\ finalQuizScore = 50

\* the values a slot may hold for a drawn question of the given kind
SlotValuesFor(question) ==
    {NULL} \cup (IF question.type = "interactive"
                 THEN {CORRECT, INCORRECT}
                 ELSE 0..(OptionCount - 1))

\* each answer slot holds a value of the kind of the drawn question at its
\* position
SlotsMatchQuestionKind ==
    \A i \in 1..Len(shuffledQuestions) :
        i <= Len(userAnswers) => userAnswers[i] \in SlotValuesFor(Q(shuffledQuestions[i]))

\* C14: in every reachable state each answer slot is consistent with the kind
\* of the drawn question at its position (null, a valid option index of a
\* choice question, or 'correct' / 'incorrect' for an interactive question);
\* in particular jumpToCertificate, one of the operations the claim names,
\* keeps the slots consistent.
C14_SlotsMatchQuestionKind ==
    [][ (SlotsMatchQuestionKind /\ jumpToCertificate) => SlotsMatchQuestionKind' ]_vars

\* C15: checkGitWorkflow stores 'correct' exactly when every one of its steps
\* matches its expected command under checkCommandEquivalence, and 'incorrect'
\* otherwise.
C15_GitWorkflowCorrectIffAllMatch ==
    (checker.done /\ checker.component = "git-workflow") =>
        /\ checker.verdict \in {CORRECT, INCORRECT}
        /\ checker.verdict = CORRECT <=>
              /\ checkCommandEquivalence(trim(checker.typed[1]), GitAddIndexHtml)
              /\ checkCommandEquivalence(trim(checker.typed[2]), GitCommitM)

\* both steps were typed in another spelling than the expected one and the
\* exercise was accepted
C15_Witness ==
    /\ checker.done
    /\ checker.component = "git-workflow"
    /\ checker.typed = << TypedSpacedAddDot, TypedCommitNoMessage >>
    /\ checker.verdict = CORRECT

\* the number of steps of the checked exercise that match
MatchingSteps ==
    Cardinality({ i \in 1..Len(checker.typed) :
        checkCommandEquivalence(trim(checker.typed[i]),
                                ExpectedCommands(checker.component)[i]) })

\* C16: checkBranchPractice stores 'correct' exactly when at least 2 of its 3
\* steps match (whichever steps they are), and 'incorrect' when 0 or 1 match.
C16_BranchPracticeCorrectIffTwoMatch ==
    (checker.done /\ checker.component = "branch-practice") =>
        /\ Len(checker.typed) = 3
        /\ MatchingSteps >= 2 => checker.verdict = CORRECT
        /\ MatchingSteps <= 1 => checker.verdict = INCORRECT

\* exactly the first and the third step match and the exercise was accepted
C16_Witness ==
    /\ checker.done
    /\ checker.component = "branch-practice"
    /\ checker.typed = << GitBranchFeatureLogin, TypedEmpty, GitSwitchCFeatureLogin >>
    /\ MatchingSteps = 2
    /\ checker.verdict = CORRECT

\* C17: checkGitignoreBuilder stores 'correct' exactly when each of the eight
\* checkboxes is ticked if and only if it is expected to be ticked, and
\* 'incorrect' for every other combination of ticks.
C17_GitignoreCorrectIffExactTicks ==
    (checker.done /\ checker.component = "gitignore-builder") =>
        IF checker.checked = ShouldBeChecked
        THEN checker.verdict = CORRECT
        ELSE checker.verdict = INCORRECT

\* every expected box and one unexpected box are ticked: rejected
C17_Witness ==
    /\ checker.done
    /\ checker.component = "gitignore-builder"
    /\ checker.checked = ShouldBeChecked \cup {4}
    /\ checker.verdict = INCORRECT

\* case folding and quote unification of one character
FoldCharacter(c) ==
    IF c \in {"'", "\""} THEN "\""
    ELSE IF c \in DOMAIN LowerOf THEN LowerOf[c] ELSE c

\* the words of a string: its maximal runs of non-blank characters, folded
RECURSIVE Words(_)
Words(s) ==
    IF s = << >> THEN << >>
    ELSE IF Head(s) \in WhiteSpace THEN Words(Tail(s))
    ELSE LET n == CHOOSE n \in 1..Len(s) :
                      /\ \A i \in 1..n : s[i] \notin WhiteSpace
                      /\ n = Len(s) \/ s[n + 1] \in WhiteSpace
         IN  << [i \in 1..n |-> FoldCharacter(s[i])] >> \o Words(SubSeq(s, n + 1, Len(s)))

\* two strings that differ at most in case, spacing and quote style
SameCommand(a, b) == Words(a) = Words(b)

\* the phrasings the table lists for an expected command
AcceptedPhrasings(expected) ==
    UNION { variations[key] : key \in { k \in DOMAIN variations : SameCommand(k, expected) } }

\* C18: checkCommandEquivalence accepts exactly when, up to case, surrounding
\* and repeated whitespace and quote style, the user string is the expected
\* command or one of the phrasings listed for it; a string that differs from
\* the expected command only in case, spacing or quote style is accepted, and
\* for an expected command without a table entry nothing else is.
C18_EquivalenceIsNormalizedMatch ==
    equiv.done =>
        /\ equiv.accepted <=>
              \/ SameCommand(equiv.userInput, equiv.expectedCommand)
              \/ \E phrasing \in AcceptedPhrasings(equiv.expectedCommand) :
                     SameCommand(equiv.userInput, phrasing)
        /\ (equiv.userInput = TypedUpperCase /\ equiv.expectedCommand = GitAddIndexHtml)
              => equiv.accepted
        /\ (equiv.expectedCommand \in {GitBranchFeatureLogin, GitCommitM, GitCommitMQuoted}
              /\ equiv.accepted)
              => SameCommand(equiv.userInput, equiv.expectedCommand)

\* the quoted commit command typed with single quotes and a doubled space
C18_Witness ==
    /\ equiv.done
    /\ equiv.userInput = TypedSingleQuoted
    /\ equiv.expectedCommand = GitCommitMQuoted
    /\ equiv.accepted

\* C19: an interactive exercise can be checked again and again, and the slot of
\* the question holds the verdict of the most recent check whatever it held
\* before; submitQuiz does not alter the slots and scores them as they are.
C19_LastCheckIsTheOneScored ==
    [][ /\ \A isCorrect \in BOOLEAN :
              StoreVerdict(isCorrect) =>
                  /\ userAnswers'[currentQuestionIndex + 1] =
                         (IF isCorrect THEN CORRECT ELSE INCORRECT)
                  /\ \A i \in 1..Len(userAnswers) :
                         i # currentQuestionIndex + 1 => userAnswers'[i] = userAnswers[i]
        /\ submitQuiz =>
              /\ userAnswers' = userAnswers
              /\ \/ finalQuizScore' = finalQuizScore
                 \/ finalQuizScore' =
                        Percentage(CorrectAnswers(userAnswers, shuffledQuestions),
                                   Len(shuffledQuestions)) ]_vars

\* the exercise was accepted (its timer is still pending) and a later check of
\* it was rejected: the slot of the interactive question holds 'incorrect'
C19_Witness ==
    /\ InProgress
    /\ pendingNav > 0
    /\ questionContainer = "git-workflow"
    /\ Q(shuffledQuestions[currentQuestionIndex + 1]).type = "interactive"
    /\ userAnswers[currentQuestionIndex + 1] = INCORRECT

\* the content of the name input consists of blanks only
BlankName(value) == \A i \in 1..Len(value) : value[i] \in WhiteSpace

\* name is value without its leading and trailing blanks
NameOf(value, name) ==
    /\ name # << >>
    /\ name[1] \notin WhiteSpace
    /\ name[Len(name)] \notin WhiteSpace
    /\ \E lead \in 0..Len(value) :
          /\ lead + Len(name) <= Len(value)
          /\ SubSeq(value, lead + 1, lead + Len(name)) = name
          /\ \A i \in 1..Len(value) :
                 (i <= lead \/ i > lead + Len(name)) => value[i] \in WhiteSpace

\* C20: generateCertificate with a name that is empty after trimming reports
\* the missing input and changes nothing else: no certificate, no timer, quiz
\* state as before.  With any other name it schedules the certificate for the
\* trimmed name, and the certificate that the timer produces carries that name
\* and finalQuizScore.
C20_CertificateNeedsName ==
    [][ /\ \A value \in NameInputs :
              GenerateCertificateFor(value) =>
                  IF BlankName(value)
                  THEN /\ lastAlert' = "name-required"
                       /\ UNCHANGED << quizVars, certVars, timerVars >>
                  ELSE /\ pendingCertificate' # << >>
                       /\ NameOf(value, pendingCertificate'[Len(pendingCertificate')])
                       /\ Len(pendingCertificate') = Len(pendingCertificate) + 1
                       /\ certificate'.content # "certificate"
                       /\ UNCHANGED quizVars
        /\ certificateTimer =>
              /\ certificate'.content = "certificate"
              /\ certificate'.studentName = Head(pendingCertificate)
              /\ certificate'.studentName # << >>
              /\ certificate'.score = finalQuizScore
              /\ UNCHANGED quizVars ]_vars

\* after a rejected empty name, the padded name produced a certificate with
\* the trimmed name and the stored score
C20_Witness ==
    /\ certificate.content = "certificate"
    /\ certificate.studentName = << "A", "d", "a", " ", "L" >>
    /\ certificate.score = finalQuizScore
    /\ finalQuizScore = 100
    /\ lastAlert = "name-required"

\* submitQuiz gets as far as its scoring step and through it
ScoringRuns ==
    /\ Unanswered(userAnswers) = 0
    /\ shuffledQuestions # << >>
    /\ Len(userAnswers) <= Len(shuffledQuestions)

\* C21: scoring is a pure, idempotent function of the drawn questions and the
\* answers: submitQuiz changes neither of them, a second submitQuiz in the
\* state the first one leaves changes nothing at all (same stored percentage,
\* same certificate section, same completed flag), and the percentage stored
\* is the rounded share of the correct positions of the attempt as the run
\* left it, which is the attempt a second run scores.
C21_ScoringIsIdempotent ==
    [][ submitQuiz =>
          /\ userAnswers' = userAnswers
          /\ shuffledQuestions' = shuffledQuestions
          /\ questionMapping' = questionMapping
          /\ (ENABLED (submitQuiz /\ UNCHANGED vars))'
          /\ ScoringRuns =>
                LET K == Len(shuffledQuestions')
                    c == Cardinality(CorrectPositions(userAnswers', shuffledQuestions'))
                    p == finalQuizScore'
                IN  /\ 2 * p * K - K <= 200 * c
                    /\ 200 * c < 2 * p * K + K
                    /\ (p >= PassMark /\ ~ShowQuizResultsThrows(shuffledQuestions'))
                          => certificateSection' = "block" ]_vars

\* an attempt of one choice and one interactive question, the first answered
\* right and the second checked wrong, was submitted and scored 50
C21_Witness ==
    /\ quizCompleted
    /\ shuffledQuestions = << 1, 2 >>
    /\ userAnswers = << 1, INCORRECT >>
    /\ finalQuizScore = 50
    /\ lastAlert # "unanswered"

\* the number a string of decimal digits denotes
RECURSIVE NumberOf(_)
NumberOf(str) ==
    IF str = << >> THEN 0
    ELSE 10 * NumberOf(SubSeq(str, 1, Len(str) - 1))
         + (CHOOSE d \in 0..9 : Digits[d + 1] = str[Len(str)])

\* a step that runs showSection
ShowsSection ==
    \/ (nextSection /\ currentSection < Len(sections) - 1)
    \/ (previousSection /\ currentSection > 0)
    \/ \E name \in SectionNames \ {"glossary"} : NavigateTo(name)
    \/ jumpToCertificate

\* C22: the last-viewed section is persisted under the one key: after every
\* showSection(i) the stored value is the index i of the current section, and a
\* page load removes the key and starts at section 0 whatever was stored: the
\* evaluation of the script starts at section 0, and the DOMContentLoaded
\* listener that ends the load leaves the key removed and the cursor at 0.
C22_StoredSectionFollowsCursor ==
    [][ /\ ShowsSection =>
              /\ savedProgress'.stored
              /\ savedProgress'.value # << >>
              /\ NumberOf(savedProgress'.value) = currentSection'
        /\ pageLoad => currentSection' = 0
        /\ domContentLoaded => (~savedProgress'.stored /\ currentSection' = 0) ]_vars

\* the index of the sixth section was stored by showSection, the page is being
\* loaded again and the listener that removes the key is still to run
C22_Witness ==
    /\ loadPending
    /\ currentSection = 0
    /\ savedProgress = [stored |-> TRUE, value |-> << "5" >>]

\* C30: the section cursor stays within the nine sections: nextSection at the
\* last section, previousSection at the first one, an arrow key at either end
\* and navigateToSection with a name that is no section change nothing.
C30_SectionCursorStaysInRange ==
    /\ [](currentSection \in 0..(Len(sections) - 1))
    /\ [][ /\ (nextSection /\ currentSection = Len(sections) - 1) => UNCHANGED vars
           /\ (previousSection /\ currentSection = 0) => UNCHANGED vars
           /\ (KeydownWith("ArrowRight") /\ currentSection = Len(sections) - 1)
                 => UNCHANGED vars
           /\ (KeydownWith("ArrowLeft") /\ currentSection = 0) => UNCHANGED vars
           /\ NavigateTo("glossary") => UNCHANGED vars ]_vars

\* the last section was reached by stepping through the sections, the quiz
\* untouched
C30_Witness ==
    /\ currentSection = Len(sections) - 1
    /\ savedProgress.stored
    /\ ~quizStarted

\* C23: the correctness breakdown of the review agrees with the scorer: for
\* every position of a finalized attempt the question is flagged correct in
\* showQuizResults exactly when the scorer counted it, for choice and for
\* interactive questions alike.
C23_ReviewAgreesWithScorer ==
    scorer.done =>
        /\ ~scorer.review.threw
        /\ Len(scorer.review.flags) = Len(scorer.questions)
        /\ \A i \in 1..Len(scorer.questions) :
               scorer.review.flags[i]
                   <=> CountsCorrect(scorer.answers[i], Q(scorer.questions[i]))

\* C24: the deferred auto-advance of a correct interactive check schedules the
\* finish step only if the question that was checked was the last question of
\* its attempt, whatever nextQuestion, previousQuestion and retakeQuiz did
\* while the timer was pending.
C24_FinishOnlyForCheckedLastQuestion ==
    [][ (updateQuizNavigation /\ pendingFinish' > pendingFinish)
        => Head(navCheckedLast) ]_vars

\* how often a value occurs in an array
Occurrences(array, value) == Cardinality({ i \in 1..Len(array) : array[i] = value })

\* C25: shuffleArray returns a permutation of its input, of the same length
\* and with the same elements as often, for every outcome of the random
\* choices (step i picks a position in 0..i), and leaves the input as it was.
C25_ShuffleIsPermutation ==
    shuffle.done =>
        /\ Len(shuffle.shuffled) = Len(shuffle.array)
        /\ \A value \in 0..MaxShuffleValue :
               Occurrences(shuffle.shuffled, value) = Occurrences(shuffle.array, value)
        /\ shuffle.arrayAfter = shuffle.array
        /\ \A i \in 1..(Len(shuffle.array) - 1) : shuffle.rnd[i] \in 0..i

\* an array with a repeated element was reordered
C25_Witness ==
    /\ shuffle.done
    /\ shuffle.array = << 0, 1, 1 >>
    /\ shuffle.rnd = << 0, 0 >>
    /\ shuffle.shuffled = << 1, 1, 0 >>


\* ------------------------------------------------------------------------
\* Git simulator: drag and drop, typed commands, reset
\* ------------------------------------------------------------------------
\* the file with its status replaced
WithStatus(file, status) == [file EXCEPT !.status = status]

\* variant: stageFile that leaves the file in the working directory as well
Staged_Copies(state, fileName) ==
    LET fileIndex == findIndex(state.workingFiles, fileName) IN
    IF fileIndex # -1
    THEN LET file == state.workingFiles[fileIndex + 1] IN
         unlockAchievement(
             [state EXCEPT !.stagedFiles = Append(@, WithStatus(file, "staged"))],
             "first-add")
    ELSE state

\* simulatorState after stageFile(fileName)
Staged(state, fileName) ==
    LET fileIndex == findIndex(state.workingFiles, fileName) IN
    IF fileIndex # -1
    THEN LET file == state.workingFiles[fileIndex + 1] IN
         unlockAchievement(
             [state EXCEPT !.workingFiles = splice(@, fileIndex),
                           !.stagedFiles = Append(@, WithStatus(file, "staged"))],
             "first-add")
    ELSE state

\* simulatorState after unstageFile(fileName)
Unstaged(state, fileName) ==
    LET fileIndex == findIndex(state.stagedFiles, fileName) IN
    IF fileIndex # -1
    THEN LET file == state.stagedFiles[fileIndex + 1]
             status == IF includes(file.name, InstallSoftware) THEN "new"
                       ELSE "modified"
         IN  [state EXCEPT !.stagedFiles = splice(@, fileIndex),
                           !.workingFiles = Append(@, WithStatus(file, status))]
    ELSE state

\* the outcome of a command: simulatorState and the last line written to
\* #commandOutput
Outcome(state, output) == [state |-> state, output |-> output]

\* executeGitStatus
executeGitStatus(state) ==
    LET clean == Len(state.workingFiles) = 0 /\ Len(state.stagedFiles) = 0
        told == IF clean THEN unlockAchievement(state, "clean-slate") ELSE state
    IN  Outcome(unlockAchievement(told, "first-status"),
                IF clean THEN "nothing to commit, working tree clean"
                ELSE "no changes added to commit")

\* executeGitAdd(args)
executeGitAdd(state, args) ==
    IF Len(args) = 0 THEN Outcome(state, "fatal: pathspec not specified")
    ELSE LET target == args[1] IN
         IF target = << "." >>
         THEN Outcome(unlockAchievement(
                  [state EXCEPT
                      !.workingFiles = << >>,
                      !.stagedFiles = @ \o [i \in 1..Len(state.workingFiles) |->
                                       WithStatus(state.workingFiles[i], "staged")]],
                  "first-add"), "Staged all changes")
         ELSE LET fileIndex == findIndex(state.workingFiles, target) IN
              IF fileIndex # -1
              THEN LET file == state.workingFiles[fileIndex + 1] IN
                   Outcome(unlockAchievement(
                       [state EXCEPT
                           !.workingFiles = splice(@, fileIndex),
                           !.stagedFiles = Append(@, WithStatus(file, "staged"))],
                       "first-add"), "Staged")
              ELSE Outcome(state, "pathspec did not match any files")

\* the message executeGitCommit gives the commit
CommitMessage(args) ==
    LET messageIndex == IndexOfDashM(args) IN
    IF messageIndex # -1 /\ messageIndex + 1 < Len(args)
    THEN RemoveQuotes(join(SubSeq(args, messageIndex + 2, Len(args))))
    ELSE DefaultCommitMessage

\* variant: executeGitCommit that leaves the staging area as it was
executeGitCommit_KeepsStaged(state, args, hash) ==
    IF Len(state.stagedFiles) = 0
    THEN Outcome(state, "nothing to commit, working tree clean")
    ELSE LET newCommit == [hash |-> hash, message |-> CommitMessage(args),
                           files |-> Len(state.stagedFiles)]
         IN  Outcome(unlockAchievement(
                 [state EXCEPT !.commits = Append(@, newCommit)],
                 "first-commit"), "files changed")

\* executeGitCommit(args); hash is what generateCommitHash returned
executeGitCommit(state, args, hash) ==
    IF Len(state.stagedFiles) = 0
    THEN Outcome(state, "nothing to commit, working tree clean")
    ELSE LET newCommit == [hash |-> hash, message |-> CommitMessage(args),
                           files |-> Len(state.stagedFiles)]
         IN  Outcome(unlockAchievement(
                 [state EXCEPT !.commits = Append(@, newCommit),
                               !.stagedFiles = << >>],
                 "first-commit"), "files changed")

\* executeGitPush only writes to the output
executeGitPush(state) ==
    Outcome(state, IF Len(state.commits) <= 1 THEN "Everything up-to-date"
                   ELSE "feature/powershell-improvements")

\* what a learner types into #commandInput
SimulatorInputs ==
    { GitAddPrefix \o name : name \in FileNames } \cup
    { TypedAddLowerCaseReadme, TypedAddMissingFile, TypedAddNoPathspec, GitAddDot,
      TypedCommitFix, TypedCommit, TypedStatus, TypedPush, TypedLs,
      TypedDoubleSpaceCommit, TypedBlank }

\* command of executeCommand for each input: commandInput.value.trim()
TrimmedInputs == [typed \in SimulatorInputs |-> trim(typed)]

\* command.toLowerCase().split(' ') for each command, computed once
ParsedCommands ==
    [command \in { TrimmedInputs[typed] : typed \in SimulatorInputs } |->
        split(toLowerCase(command))]

\* parts of processGitCommand: the lower-cased command split at single spaces
Parts(command) == ParsedCommands[command]

\* processGitCommand(command)
processGitCommand(state, command, hash) ==
    LET parts == Parts(command)
        gitCommand == parts[1]
        subCommand == IF Len(parts) >= 2 THEN parts[2] ELSE << >>
        args == SubSeq(parts, 3, Len(parts))
    IN  IF gitCommand # << "g", "i", "t" >> THEN Outcome(state, "Command not found")
        ELSE IF subCommand = << "s", "t", "a", "t", "u", "s" >>
             THEN executeGitStatus(state)
        ELSE IF subCommand = << "a", "d", "d" >>
             THEN executeGitAdd(state, args)
        ELSE IF subCommand = << "c", "o", "m", "m", "i", "t" >>
             THEN executeGitCommit(state, args, hash)
        ELSE IF subCommand = << "p", "u", "s", "h" >>
             THEN executeGitPush(state)
        ELSE Outcome(state, "Unknown git command")

SimulatorFrame ==
    UNCHANGED << quizVars, domVars, timerVars, sectionVars, lastAlert, sampler,
                 scorer, checker, equiv, shuffle, certVars, workflowState >>

\* drag and drop leaves #commandOutput alone
DropFrame == SimulatorFrame /\ UNCHANGED commandOutput

\* handleDrop onto the staging area
stageFile(fileName) ==
    /\ simulatorState' = Staged(simulatorState, fileName)
    /\ DropFrame

\* handleDrop onto the working directory
unstageFile(fileName) ==
    /\ simulatorState' = Unstaged(simulatorState, fileName)
    /\ DropFrame

\* executeCommand with typed in #commandInput
ExecuteCommand(typed, hash) ==
    /\ LET command == TrimmedInputs[typed]
           outcome == IF command = << >>
                      THEN Outcome(simulatorState, commandOutput)
                      ELSE processGitCommand(simulatorState, command, hash)
       IN  /\ simulatorState' = outcome.state
           /\ commandOutput' = outcome.output
    /\ SimulatorFrame

executeCommand ==
    \E typed \in SimulatorInputs, hash \in CommitHashes : ExecuteCommand(typed, hash)

resetSimulator ==
    /\ simulatorState' = InitialSimulatorState
    /\ commandOutput' = ""
    /\ SimulatorFrame

dropOnStagingArea == \E fileName \in FileNames : stageFile(fileName)

dropOnWorkingDirectory == \E fileName \in FileNames : unstageFile(fileName)

SimulatorNext ==
    \/ dropOnStagingArea
    \/ dropOnWorkingDirectory
    \/ executeCommand
    \/ resetSimulator

SimulatorSpec == Init /\ [][SimulatorNext]_vars


\* ------------------------------------------------------------------------
\* Properties of the Git simulator
\* ------------------------------------------------------------------------
\* the set of names of the files in a list
NamesOf(files) == { files[i].name : i \in 1..Len(files) }

\* C26: typing 'git add <name>', the command of the staging-area hint, with the
\* name of a file in the working directory moves exactly that file from
\* workingFiles to stagedFiles; with a name that matches no working file the
\* simulator state stays as it was.
C26_GitAddStagesNamedFile ==
    [][\A name \in FileNames, hash \in CommitHashes :
          ExecuteCommand(GitAddPrefix \o name, hash) =>
             IF name \in NamesOf(simulatorState.workingFiles)
             THEN /\ NamesOf(simulatorState'.workingFiles) =
                        NamesOf(simulatorState.workingFiles) \ {name}
                  /\ NamesOf(simulatorState'.stagedFiles) =
                        NamesOf(simulatorState.stagedFiles) \cup {name}
             ELSE simulatorState' = simulatorState]_vars


\* the set of files (name and status) in a list
FilesOf(files) == { files[i] : i \in 1..Len(files) }

\* no file is in both lists and no file is twice in a list
FilesApart ==
    /\ NamesOf(simulatorState.workingFiles) \cap
           NamesOf(simulatorState.stagedFiles) = {}
    /\ Cardinality(NamesOf(simulatorState.workingFiles)) =
           Len(simulatorState.workingFiles)
    /\ Cardinality(NamesOf(simulatorState.stagedFiles)) =
           Len(simulatorState.stagedFiles)

\* stageFile and unstageFile of fileName move at most that file between the lists
OnlyMoves(fileName) ==
    /\ NamesOf(simulatorState'.workingFiles) \cup NamesOf(simulatorState'.stagedFiles) =
           NamesOf(simulatorState.workingFiles) \cup NamesOf(simulatorState.stagedFiles)
    /\ NamesOf(simulatorState'.workingFiles) \ {fileName} =
           NamesOf(simulatorState.workingFiles) \ {fileName}
    /\ NamesOf(simulatorState'.stagedFiles) \ {fileName} =
           NamesOf(simulatorState.stagedFiles) \ {fileName}
    /\ simulatorState'.commits = simulatorState.commits

\* unstageFile after stageFile of a working file gives back the working files
\* with their statuses and the staged files
RoundTrip(fileName) ==
    LET back == Unstaged(simulatorState', fileName) IN
    /\ FilesOf(back.workingFiles) = FilesOf(simulatorState.workingFiles)
    /\ back.stagedFiles = simulatorState.stagedFiles

\* C27: whatever sequence of stageFile, unstageFile, git add, git commit and
\* resetSimulator has run, no file is in both workingFiles and stagedFiles and
\* no file is twice in either list; stageFile and unstageFile only move a file
\* between the two lists; stageFile followed by unstageFile of the same file
\* restores the file's status and the set of working files.
C27_StagingMovesFiles ==
    /\ []FilesApart
    /\ [][\A fileName \in FileNames :
             /\ (stageFile(fileName) \/ unstageFile(fileName)) => OnlyMoves(fileName)
             /\ (/\ stageFile(fileName)
                 /\ fileName \in NamesOf(simulatorState.workingFiles))
                   => RoundTrip(fileName)]_vars

\* a file was staged and unstaged again: all three files are in the working
\* directory, in another order than at the start, and nothing was committed
C27_Witness ==
    /\ simulatorState.workingFiles # InitialSimulatorState.workingFiles
    /\ FilesOf(simulatorState.workingFiles) =
           FilesOf(InitialSimulatorState.workingFiles)
    /\ simulatorState.stagedFiles = << >>
    /\ Len(simulatorState.commits) = 1


\* the typed commands that reach executeGitCommit
CommitCommands == { TypedCommit, TypedCommitFix }

\* commits is an initial part of later
IsPrefix(commits, later) ==
    /\ Len(commits) <= Len(later)
    /\ SubSeq(later, 1, Len(commits)) = commits

\* what executeGitCommit does to the simulator state
CommitsStaged ==
    IF Len(simulatorState.stagedFiles) = 0
    THEN simulatorState' = simulatorState
    ELSE /\ Len(simulatorState'.commits) = Len(simulatorState.commits) + 1
         /\ IsPrefix(simulatorState.commits, simulatorState'.commits)
         /\ simulatorState'.commits[Len(simulatorState'.commits)].files =
                Len(simulatorState.stagedFiles)
         /\ simulatorState'.stagedFiles = << >>
         /\ simulatorState'.workingFiles = simulatorState.workingFiles

\* C28: executeGitCommit with an empty staging area changes nothing; with
\* n >= 1 staged files it appends exactly one commit whose file count is n,
\* empties stagedFiles and leaves workingFiles and the earlier commits as they
\* were; the commit history only grows until resetSimulator.
C28_CommitAppendsOneCommit ==
    [][/\ \A typed \in CommitCommands, hash \in CommitHashes :
             ExecuteCommand(typed, hash) => CommitsStaged
       /\ resetSimulator \/ IsPrefix(simulatorState.commits, simulatorState'.commits)
      ]_vars

\* two files were committed together after an earlier commit of one file, and a
\* commit with nothing staged followed
C28_Witness ==
    /\ Len(simulatorState.commits) = 3
    /\ simulatorState.commits[2].files = 1
    /\ simulatorState.commits[3].files = 2
    /\ simulatorState.stagedFiles = << >>
    /\ commandOutput = "nothing to commit, working tree clean"
    /\ ~simulatorState.achievements["first-status"]


\* ------------------------------------------------------------------------
\* Workflow simulator
\* ------------------------------------------------------------------------
WorkflowFrame ==
    UNCHANGED << quizVars, domVars, timerVars, sectionVars, lastAlert, sampler,
                 scorer, checker, equiv, shuffle, certVars, simulatorState,
                 commandOutput >>

startWorkflowSim ==
    /\ workflowState' = [currentBranch |-> "feature/network-info-reporting",
                         commits |-> << >>,
                         pushedCommits |-> << >>,
                         isFeatureActive |-> TRUE]
    /\ WorkflowFrame

\* simulateCommit; commitHash is the outcome of Math.random
SimulateCommit(commitHash) ==
    /\ workflowState' =
          IF ~workflowState.isFeatureActive THEN workflowState
          ELSE IF Len(workflowState.commits) >= Len(commitMessages) THEN workflowState
          ELSE LET message == commitMessages[Len(workflowState.commits) + 1] IN
               [workflowState EXCEPT
                   !.commits = Append(@, [hash |-> commitHash, message |-> message])]
    /\ WorkflowFrame

simulateCommit == \E commitHash \in CommitHashes : SimulateCommit(commitHash)

simulatePush ==
    /\ workflowState' =
          IF ~workflowState.isFeatureActive THEN workflowState
          ELSE IF Len(workflowState.commits) = 0 THEN workflowState
          ELSE IF Len(workflowState.commits) - Len(workflowState.pushedCommits) = 0
               THEN workflowState
          ELSE [workflowState EXCEPT !.pushedCommits = workflowState.commits]
    /\ WorkflowFrame

\* workflowState after a merge
Merged(state) == [state EXCEPT !.isFeatureActive = FALSE, !.currentBranch = "main"]

\* variant: simulateMerge that does not ask for the commits to be pushed
MergeOf_Unpushed(state) ==
    IF ~state.isFeatureActive THEN state
    ELSE IF Len(state.commits) = 0 THEN state
    ELSE Merged(state)

\* workflowState after simulateMerge
MergeOf(state) ==
    IF ~state.isFeatureActive THEN state
    ELSE IF Len(state.commits) = 0 THEN state
    ELSE IF Len(state.commits) # Len(state.pushedCommits) THEN state
    ELSE Merged(state)

simulateMerge ==
    /\ workflowState' = MergeOf(workflowState)
    /\ WorkflowFrame

resetWorkflowSim ==
    /\ workflowState' = InitialWorkflowState
    /\ WorkflowFrame

WorkflowNext ==
    \/ startWorkflowSim
    \/ simulateCommit
    \/ simulatePush
    \/ simulateMerge
    \/ resetWorkflowSim

WorkflowSpec == Init /\ [][WorkflowNext]_vars

\* ------------------------------------------------------------------------
\* SectionSpec: the handlers that move between sections, with the handlers
\* that leave state for a page load to discard
\* ------------------------------------------------------------------------
SectionNext ==
    \/ nextSection
    \/ previousSection
    \/ navigateToSection
    \/ clickNavLink
    \/ keydown
    \/ jumpToCertificate
    \/ startQuiz
    \/ resetSimulator
    \/ startWorkflowSim
    \/ pageLoad
    \/ domContentLoaded

SectionSpec == Init /\ [][SectionNext]_vars


\* simulateMerge may take effect: a feature is active, a commit exists and every
\* commit is pushed
MayMerge ==
    /\ workflowState.isFeatureActive
    /\ Len(workflowState.commits) >= 1
    /\ workflowState.pushedCommits = workflowState.commits

\* pushedCommits is an initial part of commits, which holds at most six entries
PushedIsPrefix ==
    /\ IsPrefix(workflowState.pushedCommits, workflowState.commits)
    /\ Len(workflowState.commits) <= 6

\* C29: simulateMerge takes effect only when a feature is active, at least one
\* commit exists and every commit has been pushed; pushedCommits is always a
\* prefix of commits and commits holds at most 6 entries; after a merge,
\* simulateCommit, simulatePush and simulateMerge leave the state as it is until
\* startWorkflowSim is called.
C29_MergeNeedsPushedCommits ==
    /\ []PushedIsPrefix
    /\ [][/\ (simulateMerge /\ workflowState' # workflowState) => MayMerge
          /\ (/\ ~workflowState.isFeatureActive
              /\ simulateCommit \/ simulatePush \/ simulateMerge)
                => workflowState' = workflowState
          /\ (~workflowState.isFeatureActive /\ workflowState'.isFeatureActive)
                => startWorkflowSim
         ]_vars

\* a feature with six commits, all pushed, was merged
C29_Witness ==
    /\ ~workflowState.isFeatureActive
    /\ workflowState.currentBranch = "main"
    /\ Len(workflowState.commits) = 6
    /\ workflowState.pushedCommits = workflowState.commits

====
